---- MODULE Spec2Model ----
(***************************************************************************)
(* Model of the two operator tools of the repository:                      *)
(*   - the b1/bz1 -> tsm1 migration orchestrator (influx_tsm main):         *)
(*     discovery, plan, confirmation, backup of every planned database,     *)
(*     then per shard open -> Process -> Close -> RemoveAll -> Rename;      *)
(*   - the inspection tool (cmd/inspect): summary table and full dump.      *)
(* The file system is the disk variable; every file-system call of the     *)
(* code is one step, and each may fail.                                     *)
(***************************************************************************)
EXTENDS Integers, Sequences, FiniteSets, TLC

VARIABLES
    disk,       \* data root: directory name -> directory content
    pc,         \* position of main
    shards,     \* the plan: sorted, filtered sequence of ShardInfo
    idx,        \* index in shards of the shard being converted
    toBackup,   \* databases of the plan whose backup is still to be taken
    parallel,   \* the -parallel flag
    start,      \* history: disk as it was when the current run started
    stage,      \* history: last completed step of each planned shard
    failedAt,   \* history: the step whose failure ended the run ("" if none)
    backedUp,   \* history: databases whose backupDatabase returned nil in this run
    reply,      \* history: the line the operator typed (<<>> before it is read)
    calls,      \* history: results of direct backupDatabase calls, in order
    ds,         \* the -dbs flag after strings.Split(ds, ",")
    runs,       \* history: number of runs of the tool started so far
    stale,      \* history: databases whose backup an earlier run took and nobody removed
    store,      \* inspection: the opened tsdb.Store (shard owners and points)
    dpc,        \* inspection: position of dumpData
    shardIDs,   \* inspection: the shardIDs slice
    dbIdx,      \* inspection: index of db in databases
    mIdx,       \* inspection: index of m in measurements
    shIdx,      \* inspection: index of shardID in shardIDs
    keyIdx,     \* inspection: index of key in series
    pos,        \* inspection: position of the cursor in its series
    txOpen,     \* inspection: shards with a transaction that is open
    begun,      \* history: number of ReadOnlyTx calls so far
    rolled,     \* history: number of Rollback calls so far
    out         \* inspection: the lines written so far

migVars == <<disk, pc, shards, idx, toBackup, parallel, start, stage,
             failedAt, backedUp, reply, calls, ds, runs, stale>>
dumpVars == <<store, dpc, shardIDs, dbIdx, mIdx, shIdx, keyIdx, pos, txOpen,
              begun, rolled, out>>
vars == <<migVars, dumpVars>>

-----------------------------------------------------------------------------
(* Bounds *)

MaxShard == 2       \* shard ids per database are 1..MaxShard
MaxCalls == 3       \* direct calls of backupDatabase
MaxPoints == 2      \* points of one series in one shard
TsBits == 4         \* bits of a timestamp (64 in the code)
MaxRuns == 2        \* runs of the migration tool over one data root

-----------------------------------------------------------------------------
(* Names.  A name is a sequence of characters, so that suffix tests and    *)
(* concatenation are computed as the code computes them.                   *)

backupExt == <<"b", "a", "k">>
tsmExt == <<"t", "s", "m">>

\* Characters in byte order, for the sorted listing of ioutil.ReadDir and
\* for sort.Sort.
Alphabet == <<",", ".", "a", "b", "f", "g", "k", "m", "s", "t">>

CharRank(c) == CHOOSE i \in 1..Len(Alphabet) : Alphabet[i] = c

RECURSIVE NameLess(_, _)
NameLess(a, b) ==
    IF a = <<>> THEN b # <<>>
    ELSE IF b = <<>> THEN FALSE
    ELSE IF Head(a) = Head(b) THEN NameLess(Tail(a), Tail(b))
    ELSE CharRank(Head(a)) < CharRank(Head(b))

\* strings.HasSuffix
HasSuffix(s, suffix) ==
    /\ Len(s) >= Len(suffix)
    /\ SubSeq(s, Len(s) - Len(suffix) + 1, Len(s)) = suffix

\* Database directories that hold live data.
LiveNames == {<<"a">>, <<"b">>}

\* A live database whose name ends in the letters of backupExt, without a dot.
Kbak == <<"k", "b", "a", "k">>

\* dest of backupDatabase: src + "." + backupExt
BackupPath(src) == src \o <<".">> \o backupExt

DirNames == LiveNames \cup {BackupPath(n) : n \in LiveNames} \cup {Kbak}

ShardIds == 1..MaxShard

-----------------------------------------------------------------------------
(* File-system content *)

Formats == {"b1", "bz1", "tsm1", "unknown"}
LegacyFormats == {"b1", "bz1"}

\* What one path holds.  origin names the shard whose points the data are,
\* whole tells a complete file from a truncated one, conv tells converted
\* data from data that was on disk before any run.
NoFile == [form |-> "none", whole |-> FALSE, origin |-> <<>>, conv |-> FALSE]
Data(f, d, i) == [form |-> f, whole |-> TRUE, origin |-> <<d, i>>, conv |-> FALSE]
PartialOf(c) == [c EXCEPT !.whole = FALSE]

\* What Converter.Process leaves at dst after reading all of c.
ConvertedFrom(c) == [form |-> "tsm1", whole |-> c.whole, origin |-> c.origin, conv |-> TRUE]

\* A directory of the data root: sh[i] is the shard path <db>/<rp>/<i>,
\* tsm[i] its sibling <db>/<rp>/<i>.tsm.
NoDir == [exists |-> FALSE, complete |-> FALSE,
          sh |-> [i \in ShardIds |-> NoFile], tsm |-> [i \in ShardIds |-> NoFile]]
EmptyDir == [NoDir EXCEPT !.exists = TRUE]

-----------------------------------------------------------------------------
(* Metadata view *)

ShardInfo(d, i, t, f) == [db |-> d, id |-> i, tsm |-> t, format |-> f]

\* Database.Shards: one ShardInfo per entry of the database directory.
Shards(fs, d) ==
    {ShardInfo(d, i, FALSE, fs[d].sh[i].form) : i \in {j \in ShardIds : fs[d].sh[j] # NoFile}}
    \cup
    {ShardInfo(d, i, TRUE, fs[d].tsm[i].form) : i \in {j \in ShardIds : fs[d].tsm[j] # NoFile}}

\* Less of ShardInfos: by database, then path ("1" < "1.tsm" < "2").
ShardLess(x, y) ==
    \/ NameLess(x.db, y.db)
    \/ x.db = y.db /\ x.id < y.id
    \/ x.db = y.db /\ x.id = y.id /\ ~x.tsm /\ y.tsm

RECURSIVE SortShards(_)
SortShards(S) ==
    IF S = {} THEN <<>>
    ELSE LET m == CHOOSE x \in S : \A y \in S \ {x} : ShardLess(x, y)
         IN <<m>> \o SortShards(S \ {m})

\* ShardInfos.FilterFormat: the shards that are candidates for migration away
\* from fmt, in their order.
RECURSIVE FilterFormat(_, _)
FilterFormat(s, fmt) ==
    IF s = <<>> THEN <<>>
    ELSE IF Head(s).format # fmt /\ Head(s).format \in LegacyFormats
         THEN <<Head(s)>> \o FilterFormat(Tail(s), fmt)
         ELSE FilterFormat(Tail(s), fmt)

\* ShardInfos.FilterDatabases: the shards of the named databases, in their
\* order; nil means all databases.
RECURSIVE FilterDatabases(_, _)
FilterDatabases(s, dbs) ==
    IF dbs = <<>> \/ s = <<>> THEN s
    ELSE IF \E k \in 1..Len(dbs) : dbs[k] = Head(s).db
         THEN <<Head(s)>> \o FilterDatabases(Tail(s), dbs)
         ELSE FilterDatabases(Tail(s), dbs)

\* ShardInfos.Databases: the distinct databases of the shards.
Databases(s) == {s[k].db : k \in 1..Len(s)}

\* main: strings.Split(ds, ","), then nil when nothing was requested.
ReqDs(split) == IF Len(split) = 1 /\ split[1] = <<>> THEN <<>> ELSE split

\* main: the directories of the data root that are read for shards.
NoFilterListed(fs) == {d \in DirNames : fs[d].exists}
Listed(fs) == {d \in DirNames : fs[d].exists /\ ~HasSuffix(d, backupExt)}

\* main: the plan.
NoFormatFilterPlan(fs, reqDs) ==
    FilterDatabases(SortShards(UNION {Shards(fs, d) : d \in Listed(fs)}), reqDs)
Plan(fs, reqDs) ==
    FilterDatabases(
        FilterFormat(SortShards(UNION {Shards(fs, d) : d \in Listed(fs)}), "tsm1"),
        reqDs)

\* si.FullPath, as the content found there.
AtPath(fs, si) == IF si.tsm THEN fs[si.db].tsm[si.id] ELSE fs[si.db].sh[si.id]
-----------------------------------------------------------------------------
(* Backup manager *)

\* backupDatabase: os.Stat(dest) does not say "not exist".
DestNeverExists(fs, src) == FALSE
DestExists(fs, src) == fs[BackupPath(src)].exists

\* copyDir without a failure: every directory and file under src is at dest.
CopyDir(fs, dest, src) == [fs EXCEPT ![dest] = fs[src]]

\* copyDir returning an error of MkdirAll, Open, OpenFile or io.Copy: the walk
\* stops where it is and what was written stays.
CopyDirFailed(fs, dest, src) ==
    {fs,
     [fs EXCEPT ![dest] = [EmptyDir EXCEPT !.complete = FALSE]],
     [fs EXCEPT ![dest] = [exists |-> TRUE, complete |-> FALSE,
                           sh |-> [i \in ShardIds |->
                                     IF fs[src].sh[i] = NoFile THEN NoFile
                                     ELSE PartialOf(fs[src].sh[i])],
                           tsm |-> [i \in ShardIds |-> NoFile]]]}

\* backupDatabase(src): every result it can have, as the error returned and
\* the disk left behind.
backupDatabase(fs, src) ==
    IF DestExists(fs, src)
    THEN {[err |-> "exists", fs |-> fs]}
    ELSE {[err |-> "", fs |-> CopyDir(fs, BackupPath(src), src)]}
         \cup {[err |-> "io", fs |-> f] : f \in CopyDirFailed(fs, BackupPath(src), src)}

-----------------------------------------------------------------------------
(* The operator's answer *)

Answers == {<<"y", "\n">>, <<"Y", "\n">>, <<"n", "\n">>, <<"\n">>,
            <<"y", "e", "s", "\n">>, <<"y", "\r", "\n">>, <<"y">>}

\* bufio.Reader.ReadString('\n'): the input up to and including the first
\* newline; an error when the input ends before one.
ReadStringErr(in) == \A k \in 1..Len(in) : in[k] # "\n"
ReadString(in) ==
    IF ReadStringErr(in) THEN in
    ELSE SubSeq(in, 1, CHOOSE k \in 1..Len(in) :
                          in[k] = "\n" /\ \A j \in 1..(k - 1) : in[j] # "\n")

\* strings.ToLower
ToLower(str) ==
    [k \in 1..Len(str) |->
        IF str[k] = "Y" THEN "y" ELSE IF str[k] = "N" THEN "n" ELSE str[k]]

\* strings.TrimRight(str, "\n")
RECURSIVE TrimRightNL(_)
TrimRightNL(str) ==
    IF str # <<>> /\ str[Len(str)] = "\n"
    THEN TrimRightNL(SubSeq(str, 1, Len(str) - 1))
    ELSE str

\* main: the decision taken from the line read.
AlwaysProceed(in) == TRUE
Proceed(in) == TrimRightNL(ToLower(ReadString(in))) = <<"y">>
-----------------------------------------------------------------------------
(* convertShard: the file-system effect of each of its calls, as the error  *)
(* returned ("" for nil) and the disk left behind                           *)

SetSrc(fs, si, c) == [fs EXCEPT ![si.db].sh[si.id] = c]
SetDst(fs, si, c) == [fs EXCEPT ![si.db].tsm[si.id] = c]

\* The switch on si.Format: a reader exists for BZ1 and for B1.
Supported(si) == si.format \in {"bz1", "b1"}

\* converter.Process(reader): writes dst from the points read at src.
ProcessInPlace(fs, si) ==
    {[err |-> "", fs |-> SetDst(fs, si, ConvertedFrom(fs[si.db].sh[si.id]))],
     [err |-> "process", fs |-> SetSrc(fs, si, PartialOf(fs[si.db].sh[si.id]))]}
Process(fs, si) ==
    {[err |-> "", fs |-> SetDst(fs, si, ConvertedFrom(fs[si.db].sh[si.id]))],
     [err |-> "process", fs |-> fs],
     [err |-> "process",
      fs |-> SetDst(fs, si, PartialOf(ConvertedFrom(fs[si.db].sh[si.id])))]}

\* os.RemoveAll(src): removes everything it can and returns the first error.
RemoveAllWithBackup(fs, si) ==
    {[err |-> "",
      fs |-> [SetSrc(fs, si, NoFile) EXCEPT ![BackupPath(si.db)].sh[si.id] = NoFile]],
     [err |-> "remove", fs |-> fs],
     [err |-> "remove", fs |-> SetSrc(fs, si, PartialOf(fs[si.db].sh[si.id]))]}
RemoveAll(fs, si) ==
    {[err |-> "", fs |-> SetSrc(fs, si, NoFile)],
     [err |-> "remove", fs |-> fs],
     [err |-> "remove", fs |-> SetSrc(fs, si, PartialOf(fs[si.db].sh[si.id]))]}

\* os.Rename(dst, src)
RenameOrDiscard(fs, si) ==
    {[err |-> "", fs |-> SetDst(SetSrc(fs, si, fs[si.db].tsm[si.id]), si, NoFile)],
     [err |-> "rename", fs |-> SetDst(fs, si, NoFile)]}
Rename(fs, si) ==
    {[err |-> "", fs |-> SetDst(SetSrc(fs, si, fs[si.db].tsm[si.id]), si, NoFile)],
     [err |-> "rename", fs |-> fs]}

-----------------------------------------------------------------------------
(* Initial states: a data root before the tool is started *)

\* Contents of a live database directory whose shards are 1..n, n <= top.
LiveDirs(d, top, formats) ==
    {[exists |-> TRUE, complete |-> TRUE,
      sh |-> [i \in ShardIds |-> IF f[i] = "none" THEN NoFile ELSE Data(f[i], d, i)],
      tsm |-> [i \in ShardIds |-> NoFile]] :
        f \in {g \in [ShardIds -> formats \cup {"none"}] :
                 /\ \A i \in ShardIds : i > top => g[i] = "none"
                 /\ \A i \in ShardIds : i > 1 /\ g[i] # "none" => g[i - 1] # "none"}}

DsInputs == {<< <<>> >>, << <<"a">> >>, << <<"b">> >>, << <<"b">>, <<"a">> >>,
             << Kbak >>}

InitialDisks ==
    {[d \in DirNames |->
        IF d = <<"a">> THEN da
        ELSE IF d = <<"b">> THEN db
        ELSE IF d = Kbak THEN dk
        ELSE IF d = BackupPath(<<"a">>) THEN (IF ba THEN da ELSE NoDir)
        ELSE (IF bb THEN db ELSE NoDir)] :
            da \in LiveDirs(<<"a">>, MaxShard, Formats),
            db \in LiveDirs(<<"b">>, 1, {"b1", "bz1", "tsm1"}),
            dk \in {NoDir} \cup LiveDirs(Kbak, 1, {"b1"}),
            ba \in BOOLEAN, bb \in BOOLEAN}

\* The inspection tool is not running.
NoStore == [owner |-> <<>>, data |-> <<>>]
DumpIdle ==
    /\ store = NoStore
    /\ dpc = "off"
    /\ shardIDs = <<>>
    /\ dbIdx = 0 /\ mIdx = 0 /\ shIdx = 0 /\ keyIdx = 0 /\ pos = 0
    /\ txOpen = {}
    /\ begun = 0 /\ rolled = 0
    /\ out = <<>>

Init ==
    /\ DumpIdle
    /\ disk \in InitialDisks
    /\ pc = "start"
    /\ shards = <<>>
    /\ idx = 0
    /\ toBackup = {}
    /\ parallel = FALSE
    /\ start = disk
    /\ stage = <<>>
    /\ failedAt = ""
    /\ backedUp = {}
    /\ reply = <<>>
    /\ calls = <<>>
    /\ ds = << <<>> >>
    /\ runs = 1
    /\ stale = {}
-----------------------------------------------------------------------------
(* main of the migration tool *)

Exit(step) == pc' = "aborted" /\ failedAt' = step

\* Flags, listing of the data root, plan, "Nothing to do.".
Discover(split, par) ==
    /\ pc = "start"
    /\ parallel' = par
    /\ \/ /\ Exit("discover")      \* ioutil.ReadDir or Database.Shards failed
          /\ UNCHANGED <<shards, stage>>
       \/ /\ shards' = Plan(disk, ReqDs(split))
          /\ stage' = [k \in 1..Len(shards') |-> "planned"]
          /\ pc' = IF shards' = <<>> THEN "nothing" ELSE "confirm"
          /\ UNCHANGED failedAt
    /\ ds' = split
    /\ UNCHANGED <<disk, idx, toBackup, start, backedUp, reply, calls, runs, stale>>
    /\ UNCHANGED dumpVars

\* "These shards will be converted. Proceed? y/N: "
Confirm(in) ==
    /\ pc = "confirm"
    /\ IF ReadStringErr(in) THEN Exit("read") /\ UNCHANGED toBackup
       ELSE IF ~Proceed(in) THEN Exit("declined") /\ UNCHANGED toBackup
       ELSE /\ pc' = "backup"
            /\ toBackup' = Databases(shards)
            /\ UNCHANGED failedAt
    /\ reply' = in
    /\ UNCHANGED <<disk, shards, idx, parallel, start, stage, backedUp, calls, ds, runs, stale>>
    /\ UNCHANGED dumpVars

\* One iteration of "Backup each directory."; the loop ends into the
\* conversion loop.
BackupKeepGoing(d) ==
    /\ pc = "backup"
    /\ d \in toBackup
    /\ \E r \in backupDatabase(disk, d) :
          /\ disk' = r.fs
          /\ backedUp' = IF r.err = "" THEN backedUp \cup {d} ELSE backedUp
    /\ toBackup' = toBackup \ {d}
    /\ pc' = IF toBackup' = {} THEN "open" ELSE "backup"
    /\ idx' = IF toBackup' = {} THEN 1 ELSE idx
    /\ UNCHANGED <<shards, parallel, start, stage, failedAt, reply, calls, ds, runs, stale>>
    /\ UNCHANGED dumpVars
Backup(d) ==
    /\ pc = "backup"
    /\ d \in toBackup
    /\ \E r \in backupDatabase(disk, d) :
          /\ disk' = r.fs
          /\ IF r.err = ""
             THEN /\ backedUp' = backedUp \cup {d}
                  /\ toBackup' = toBackup \ {d}
                  /\ pc' = IF toBackup' = {} THEN "open" ELSE "backup"
                  /\ idx' = IF toBackup' = {} THEN 1 ELSE idx
                  /\ UNCHANGED failedAt
             ELSE /\ Exit("backup")
                  /\ UNCHANGED <<backedUp, toBackup, idx>>
    /\ UNCHANGED <<shards, parallel, start, stage, reply, calls, ds, runs, stale>>
    /\ UNCHANGED dumpVars

\* convertShard(shards[k]): the switch on the format and reader.Open().
ReaderOpenOrSkip(k) ==
    /\ pc = "open" /\ idx = k
    /\ \/ /\ Supported(shards[k])
          /\ stage' = [stage EXCEPT ![k] = "opened"]
          /\ pc' = "process"
          /\ UNCHANGED idx
       \/ /\ idx' = k + 1
          /\ pc' = IF k = Len(shards) THEN "done" ELSE "open"
          /\ UNCHANGED stage
    /\ UNCHANGED <<disk, shards, toBackup, parallel, start, failedAt, backedUp, reply, calls, ds, runs, stale>>
    /\ UNCHANGED dumpVars
ReaderOpen(k) ==
    /\ pc = "open" /\ idx = k
    /\ IF ~Supported(shards[k]) THEN Exit("unsupported") /\ UNCHANGED stage
       ELSE \/ /\ stage' = [stage EXCEPT ![k] = "opened"]
               /\ pc' = "process"
               /\ UNCHANGED failedAt
            \/ Exit("open") /\ UNCHANGED stage
    /\ UNCHANGED <<disk, shards, idx, toBackup, parallel, start, backedUp, reply, calls, ds, runs, stale>>
    /\ UNCHANGED dumpVars

\* convertShard: NewConverter(dst, tsmSz) and converter.Process(reader).
ConverterProcess ==
    /\ pc = "process"
    /\ \E r \in Process(disk, shards[idx]) :
          /\ disk' = r.fs
          /\ IF r.err = ""
             THEN /\ stage' = [stage EXCEPT ![idx] = "written"]
                  /\ pc' = "close"
                  /\ UNCHANGED failedAt
             ELSE Exit(r.err) /\ UNCHANGED stage
    /\ UNCHANGED <<shards, idx, toBackup, parallel, start, backedUp, reply, calls, ds, runs, stale>>
    /\ UNCHANGED dumpVars

\* convertShard: reader.Close().
ReaderClose ==
    /\ pc = "close"
    /\ \/ /\ stage' = [stage EXCEPT ![idx] = "closed"]
          /\ pc' = "remove"
          /\ UNCHANGED failedAt
       \/ Exit("close") /\ UNCHANGED stage
    /\ UNCHANGED <<disk, shards, idx, toBackup, parallel, start, backedUp, reply, calls, ds, runs, stale>>
    /\ UNCHANGED dumpVars

\* convertShard: os.RemoveAll(si.FullPath(dataPath)).
RemoveSource ==
    /\ pc = "remove"
    /\ \E r \in RemoveAll(disk, shards[idx]) :
          /\ disk' = r.fs
          /\ IF r.err = ""
             THEN /\ stage' = [stage EXCEPT ![idx] = "removed"]
                  /\ pc' = "rename"
                  /\ UNCHANGED failedAt
             ELSE Exit(r.err) /\ UNCHANGED stage
    /\ UNCHANGED <<shards, idx, toBackup, parallel, start, backedUp, reply, calls, ds, runs, stale>>
    /\ UNCHANGED dumpVars

\* convertShard: os.Rename(dst, src), return nil, and main's next iteration.
RenameTarget ==
    /\ pc = "rename"
    /\ \E r \in Rename(disk, shards[idx]) :
          /\ disk' = r.fs
          /\ IF r.err = ""
             THEN /\ stage' = [stage EXCEPT ![idx] = "renamed"]
                  /\ idx' = idx + 1
                  /\ pc' = IF idx = Len(shards) THEN "done" ELSE "open"
                  /\ UNCHANGED failedAt
             ELSE Exit(r.err) /\ UNCHANGED <<stage, idx>>
    /\ UNCHANGED <<shards, toBackup, parallel, start, backedUp, reply, calls, ds, runs, stale>>
    /\ UNCHANGED dumpVars

Next ==
    \/ \E split \in DsInputs, par \in BOOLEAN : Discover(split, par)
    \/ \E in \in Answers : Confirm(in)
    \/ \E d \in LiveNames : Backup(d)
    \/ \E k \in 1..(MaxShard + 1) : ReaderOpen(k)
    \/ ConverterProcess
    \/ ReaderClose
    \/ RemoveSource
    \/ RenameTarget

Spec == Init /\ [][Next]_vars
-----------------------------------------------------------------------------
(* backupDatabase called directly, any number of times up to MaxCalls *)

CallBackup(d) ==
    /\ pc = "start"
    /\ Len(calls) < MaxCalls
    /\ disk[d].exists
    /\ \E r \in backupDatabase(disk, d) :
          /\ disk' = r.fs
          /\ calls' = Append(calls,
                [db |-> d, err |-> r.err,
                 had |-> disk[BackupPath(d)].exists,
                 kept |-> r.fs = disk,
                 srcKept |-> \A n \in LiveNames : r.fs[n] = disk[n],
                 copied |-> r.fs[BackupPath(d)] = disk[d]])
    /\ UNCHANGED <<pc, shards, idx, toBackup, parallel, start, stage, failedAt,
                   backedUp, reply, ds, runs, stale>>
    /\ UNCHANGED dumpVars

NextBackup == \E d \in LiveNames : CallBackup(d)

SpecBackup == Init /\ [][NextBackup]_vars

-----------------------------------------------------------------------------
(* The tool run again over the data root an earlier run left behind *)

Ended == pc \in {"done", "aborted", "nothing"}

\* main started anew: flags, plan and progress of the ended run are gone, the
\* disk is what that run left.
Restart ==
    /\ Ended
    /\ runs < MaxRuns
    /\ runs' = runs + 1
    /\ stale' = stale \cup backedUp
    /\ pc' = "start"
    /\ shards' = <<>>
    /\ idx' = 0
    /\ toBackup' = {}
    /\ parallel' = FALSE
    /\ start' = disk
    /\ stage' = <<>>
    /\ failedAt' = ""
    /\ backedUp' = {}
    /\ reply' = <<>>
    /\ ds' = << <<>> >>
    /\ UNCHANGED <<disk, calls>>
    /\ UNCHANGED dumpVars

\* "It is up to the end-user to delete the backup on the disk": between two
\* runs the operator deletes the backup directory of d.
OperatorRemovesBackup(d) ==
    /\ pc = "start"
    /\ runs > 1
    /\ disk[BackupPath(d)].exists
    /\ disk' = [disk EXCEPT ![BackupPath(d)] = NoDir]
    /\ start' = disk'
    /\ stale' = stale \ {d}
    /\ UNCHANGED <<pc, shards, idx, toBackup, parallel, stage, failedAt, backedUp,
                   reply, calls, ds, runs>>
    /\ UNCHANGED dumpVars

\* A data root of b1 and bz1 shards with no backup in it.
InitialDisksRerun ==
    {fs \in InitialDisks :
        /\ \A d \in LiveNames : ~fs[BackupPath(d)].exists
        /\ ~fs[Kbak].exists
        /\ \A i \in ShardIds : fs[<<"a">>].sh[i].form \in {"b1", "none"}
        /\ \A i \in ShardIds : fs[<<"b">>].sh[i].form \in {"bz1", "none"}}

InitRerun == Init /\ disk \in InitialDisksRerun

NextRerun ==
    \/ Next
    \/ Restart
    \/ \E d \in LiveNames : OperatorRemovesBackup(d)

SpecRerun == InitRerun /\ [][NextRerun]_vars

-----------------------------------------------------------------------------
(* Properties of the migration tool *)

Planned == DOMAIN stage
Converting == pc \in {"open", "process", "close", "remove", "rename"}
Touched(k) == stage[k] # "planned"
Orig(k) == AtPath(start, shards[k])
Now(k) == AtPath(disk, shards[k])
Dst(k) == disk[shards[k].db].tsm[shards[k].id]
InBackup(k) == disk[BackupPath(shards[k].db)].sh[shards[k].id]

\* C1: no shard's reader is opened before backupDatabase has returned nil for
\* every database of the plan, each backup being a full copy of the database
\* as the run found it; and a run ended by a failed backupDatabase call has
\* converted no shard and left every planned shard and its target path as
\* they were.
C1_BackupsBeforeConversion ==
    /\ (Converting \/ pc = "done" \/ \E k \in Planned : Touched(k)) =>
           \A d \in Databases(shards) :
               d \in backedUp /\ disk[BackupPath(d)] = start[d]
    /\ failedAt = "backup" =>
           /\ pc = "aborted"
           /\ \A k \in Planned : ~Touched(k) /\ Now(k) = Orig(k) /\ Dst(k) = NoFile
           /\ \A d \in LiveNames : disk[d] = start[d]

\* A run of two databases in which the first backup was taken and the second
\* backupDatabase call failed.
C1_Witness ==
    /\ failedAt = "backup"
    /\ backedUp # {}
    /\ Cardinality(Databases(shards)) = 2

\* C2: a planned shard's original path differs from what the run found there
\* only once its write has succeeded and its reader has been closed; after a
\* run ended by a failure of Open, Process or Close the failing shard's
\* original path holds what it held when the run started.
C2_SourceKeptUntilDelete ==
    \A k \in Planned :
        /\ Now(k) # Orig(k) => stage[k] \in {"closed", "removed", "renamed"}
        /\ (failedAt \in {"open", "process", "close"} /\ idx = k) => Now(k) = Orig(k)

\* A run ended by a failed Process that left a partly written target.
C2_Witness ==
    /\ failedAt = "process"
    /\ Dst(idx) # NoFile /\ ~Dst(idx).whole
    /\ Now(idx) = Orig(idx)

\* C3: in every state of a run the original path of each planned shard holds
\* either all of its legacy data or all of its converted data.
C3_AlwaysLegacyOrConverted ==
    \A k \in Planned : Now(k) = Orig(k) \/ Now(k) = ConvertedFrom(Orig(k))

\* C4: a run ended by a failure of RemoveAll or of Rename has aborted with the
\* whole converted data at the target path and a whole copy of the shard's
\* legacy data at another path: the original path or the database's backup.
C4_SwapErrorKeepsBoth ==
    failedAt \in {"remove", "rename"} =>
        /\ pc = "aborted"
        /\ Dst(idx) = ConvertedFrom(Orig(idx))
        /\ Now(idx) = Orig(idx) \/ InBackup(idx) = Orig(idx)

\* A run ended by a failed Rename: the original path is empty.
C4_Witness ==
    /\ failedAt = "rename"
    /\ Now(idx) = NoFile
    /\ InBackup(idx) = Orig(idx)

\* C6: the disk differs from what the run found only if the plan is not empty
\* and the line read is y or Y followed by a newline; a run with an empty plan
\* ends as "Nothing to do." and a run with any other line read ends aborted,
\* both with the disk as found; the backup loop is entered exactly when the
\* line read is y or Y followed by a newline.
Accepted == {<<"y", "\n">>, <<"Y", "\n">>}
EnteredBackup == pc = "backup" \/ Converting \/ pc = "done"
                 \/ failedAt \in {"backup", "unsupported", "open", "process",
                                   "close", "remove", "rename"}
C6_NoEffectWithoutConsent ==
    /\ disk # start => shards # <<>> /\ reply \in Accepted
    /\ pc = "nothing" <=> (shards = <<>> /\ pc # "start" /\ failedAt # "discover")
    /\ pc = "nothing" => disk = start
    /\ (reply # <<>> /\ reply \notin Accepted) =>
           pc = "aborted" /\ disk = start /\ backedUp = {}
    /\ EnteredBackup <=> reply \in Accepted

\* The operator typed "yes": the run ended aborted with nothing done.
C6_Witness ==
    /\ reply = <<"y", "e", "s", "\n">>
    /\ pc = "aborted"
    /\ Len(shards) >= 2

\* C7: a shard is touched only when every shard before it in the plan has
\* been converted; after a run ended by a failure in the k-th shard the shards
\* before it hold their converted data and the shards after it are untouched
\* and hold what they held when the run started; the run is done only with
\* every planned shard converted.
ConvertFailure == failedAt \in {"unsupported", "open", "process", "close", "remove", "rename"}
C7_SequentialAbortOnFailure ==
    ~parallel =>
        /\ \A k \in Planned : Touched(k) =>
               /\ k <= idx \/ pc = "done"
               /\ \A j \in 1..(k - 1) : stage[j] = "renamed"
        /\ ConvertFailure =>
               /\ pc = "aborted"
               /\ \A k \in Planned :
                     /\ k < idx => stage[k] = "renamed" /\ Now(k) = ConvertedFrom(Orig(k))
                     /\ k > idx => ~Touched(k) /\ Now(k) = Orig(k) /\ Dst(k) = NoFile
        /\ pc = "done" =>
               \A k \in Planned : stage[k] = "renamed" /\ Now(k) = ConvertedFrom(Orig(k))

\* A run of three shards ended by a failure in the second.
C7_Witness ==
    /\ ~parallel
    /\ ConvertFailure
    /\ Len(shards) = 3 /\ idx = 2
    /\ stage[1] = "renamed" /\ stage[3] = "planned"

\* C8: with -parallel, while one planned shard is between Open and Rename the
\* conversion of the next planned shard can start.
C8_ParallelInFlight ==
    (parallel /\ pc \in {"process", "close", "remove", "rename"} /\ idx < Len(shards))
        => ENABLED ReaderOpen(idx + 1)

\* C9: every planned shard has format b1 or bz1; a database is backed up only
\* if the run found a b1 or bz1 shard in it; no run ends with "Unsupported
\* shard format".
C9_OnlyLegacyFormatsPlanned ==
    /\ \A k \in Planned : shards[k].format \in {"b1", "bz1"} /\ ~shards[k].tsm
    /\ \A d \in backedUp \cup toBackup :
           \E i \in ShardIds : start[d].sh[i].form \in {"b1", "bz1"}
    /\ failedAt # "unsupported"

\* A finished run over a data root that held a tsm1 shard and a shard of an
\* unrecognized format next to the planned one.
C9_Witness ==
    /\ pc = "done"
    /\ \E d \in LiveNames, i \in ShardIds : start[d].sh[i].form = "tsm1"
    /\ \E d \in LiveNames, i \in ShardIds : start[d].sh[i].form = "unknown"

\* The marker backupDatabase appends to a database path.
BackupMarker == <<".">> \o backupExt
IsBackupDir(d) == HasSuffix(d, BackupMarker)
PlanKnown == pc # "start" /\ failedAt # "discover"
Requested(d) == ReqDs(ds) = <<>> \/ \E j \in 1..Len(ds) : ds[j] = d
InPlan(d, i) == \E k \in 1..Len(shards) : shards[k].db = d /\ shards[k].id = i

\* C16: a directory of the data root whose name ends in ".bak" is skipped by
\* discovery without an error: the plan is the one an equal data root without
\* that directory gives, no shard of the plan lies in it, it is never handed
\* to backupDatabase, and its content stays as the run found it.
WithoutBackupDirs(fs) == [d \in DirNames |-> IF IsBackupDir(d) THEN NoDir ELSE fs[d]]
C16_BackupDirsSkipped ==
    /\ PlanKnown => shards = Plan(WithoutBackupDirs(start), ReqDs(ds))
    /\ \A d \in DirNames : (IsBackupDir(d) /\ start[d].exists) =>
           /\ \A k \in 1..Len(shards) : shards[k].db # d
           /\ d \notin toBackup \cup backedUp
           /\ disk[d] = start[d]

\* A run that converted every shard of its plan beside a backup directory that
\* holds a legacy shard.
C16_Witness ==
    /\ pc = "done"
    /\ \E d \in DirNames :
          /\ IsBackupDir(d) /\ start[d].exists
          /\ \E i \in ShardIds : start[d].sh[i].form \in LegacyFormats

\* C17: once the backup loop has completed, every planned shard's legacy
\* data, whole, as the run found it, is at the shard's path or in the backup
\* of its database, and the backup of every planned database is the copy that
\* was taken: opening, converting, deleting and renaming change nothing in it.
BackupCompleted == Converting \/ pc = "done" \/ ConvertFailure
C17_NoDataLossAcrossSwap ==
    BackupCompleted =>
        /\ \A k \in Planned :
              /\ Orig(k).whole /\ Orig(k).form \in LegacyFormats
              /\ Now(k) = Orig(k) \/ InBackup(k) = Orig(k)
        /\ \A d \in Databases(shards) :
              /\ disk[BackupPath(d)].exists /\ disk[BackupPath(d)].complete
              /\ disk[BackupPath(d)] = start[d]

\* A run of two shards ended after the swap of the first and a failed delete
\* of the second that left a part of it: the second shard's legacy data are
\* whole only in the backup.
C17_Witness ==
    /\ failedAt = "remove"
    /\ idx = 2
    /\ Now(1) = ConvertedFrom(Orig(1))
    /\ Now(2) # Orig(2)
    /\ InBackup(1) = Orig(1) /\ InBackup(2) = Orig(2)

\* C20: every directory of the data root that exists and does not end in
\* ".bak" has its legacy shards in the plan, when no database was requested
\* or it is one of those requested.
C20_OnlyDotBakSkipped ==
    PlanKnown =>
        \A d \in DirNames : (start[d].exists /\ ~IsBackupDir(d) /\ Requested(d)) =>
            \A i \in ShardIds : start[d].sh[i].form \in LegacyFormats => InPlan(d, i)

\* C19: in a run started after an earlier run took the backup of database d,
\* while that backup has not been removed: if the plan holds a shard of d then
\* backupDatabase(d) can only return the already-exists error and change
\* nothing, the run never leaves the backup loop into the conversion loop,
\* once confirmed by the operator it ends there, no shard is opened and every
\* database directory stays as the run found it; if the plan holds no shard
\* of d then d is never handed to backupDatabase and its backup stays as found.
C19_StaleBackupBlocksLaterRuns ==
    \A d \in stale :
        /\ disk[BackupPath(d)].exists /\ start[BackupPath(d)].exists
        /\ d \in Databases(shards) =>
              /\ ~Converting /\ pc # "done" /\ ~ConvertFailure
              /\ \A k \in Planned : ~Touched(k)
              /\ \A n \in LiveNames : disk[n] = start[n]
              /\ d \notin backedUp
              /\ (pc = "backup" /\ d \in toBackup) =>
                     \A r \in backupDatabase(disk, d) : r.err = "exists" /\ r.fs = disk
              /\ (reply \in Accepted /\ pc # "backup") =>
                     pc = "aborted" /\ failedAt = "backup"
        /\ (PlanKnown /\ d \notin Databases(shards)) =>
              /\ d \notin toBackup \cup backedUp
              /\ disk[BackupPath(d)] = start[BackupPath(d)]

\* A second run, confirmed by the operator, that ended in the backup loop
\* because the first run had taken the backup of a database that still has a
\* legacy shard.
C19_Witness ==
    /\ runs = 2
    /\ \E d \in stale : d \in Databases(shards)
    /\ reply \in Accepted
    /\ pc = "aborted" /\ failedAt = "backup"

-----------------------------------------------------------------------------
(* Properties of backupDatabase *)

\* C5: a backupDatabase call that finds no backup of the database returns no
\* already-exists error and, when it returns nil, leaves a full copy of the
\* database at the backup path; a call that finds a backup, in particular
\* every call after one that returned nil for the same database, returns the
\* already-exists error and leaves the whole disk as it was; no call changes
\* anything under a database directory.
C5_BackupTwice ==
    \A j \in 1..Len(calls) :
        LET c == calls[j] IN
        /\ c.srcKept
        /\ c.had => c.err = "exists" /\ c.kept
        /\ ~c.had => c.err \in {"", "io"} /\ (c.err = "" => c.copied)
        /\ (\E i \in 1..(j - 1) : calls[i].db = c.db /\ calls[i].err = "") =>
               c.had /\ c.err = "exists" /\ c.kept

\* Two calls for the same database: nil, then already exists.
C5_Witness ==
    /\ Len(calls) = 2
    /\ calls[1].db = calls[2].db
    /\ calls[1].err = "" /\ calls[1].copied
    /\ calls[2].err = "exists" /\ calls[2].kept

-----------------------------------------------------------------------------
(* The inspection tool: the store it reads *)

\* u64tob and btou64: a timestamp is stored big-endian, TsBits binary digits
\* here; int64(uint64) and uint64(int64) are the conversions of the language.
Modulus == 2 ^ TsBits
ToUint64(t) == t % Modulus
ToInt64(u) == IF u >= Modulus \div 2 THEN u - Modulus ELSE u
u64tob(v) == [k \in 1..TsBits |-> (v \div (2 ^ (TsBits - k))) % 2]
RECURSIVE btou64(_)
btou64(b) == IF b = <<>> THEN 0 ELSE 2 * btou64(SubSeq(b, 1, Len(b) - 1)) + b[Len(b)]

StoreDbs == {<<"a">>, <<"b">>}
K1 == <<"m", ",", "a">>
K2 == <<"m", ",", "b">>
K3 == <<"k", ",", "a">>
SeriesKeys == {K1, K2, K3}
MeasurementOf(key) == <<key[1]>>

\* Encoded values: one field, two fields, and one the codec cannot decode.
Values == {"one", "two", "bad"}
TsValues == {-1, 0}

\* FieldCodec.DecodeFieldsWithNames
DecodeErr(value) == value = "bad"
DecodeFieldsWithNames(value) ==
    IF value = "one" THEN {<<"f", "1">>}
    ELSE IF value = "two" THEN {<<"f", "1">>, <<"g", "2.5">>}
    ELSE {}

Point(t, v) == [ts |-> u64tob(ToUint64(t)), value |-> v]
PointTime(p) == ToInt64(btou64(p.ts))

\* What a cursor can return for one series of one shard: timestamps do not
\* decrease.
AllSeries ==
    {q \in UNION {[1..n -> {Point(t, v) : t \in TsValues, v \in Values}] : n \in 0..MaxPoints} :
        \A k \in 1..(Len(q) - 1) : PointTime(q[k]) <= PointTime(q[k + 1])}
FewSeries == {<<>>, <<Point(0, "one")>>}

StoreShardIds == {1, 2}

Stores ==
    {[owner |-> [s \in StoreShardIds |-> IF s = 1 THEN <<"a">> ELSE o],
      data |-> [s \in StoreShardIds |-> [key \in SeriesKeys |->
                    IF s = 1 /\ key = K1 THEN full
                    ELSE IF s = 1 /\ key = K2 THEN f12
                    ELSE IF s = 1 THEN <<>>
                    ELSE IF key = K1 THEN f21
                    ELSE IF key = K2 THEN <<>> ELSE f23]]] :
        o \in StoreDbs, full \in AllSeries,
        f12 \in FewSeries, f21 \in FewSeries, f23 \in FewSeries}

RECURSIVE SortNames(_)
SortNames(S) ==
    IF S = {} THEN <<>>
    ELSE LET m == CHOOSE x \in S : \A y \in S \ {x} : NameLess(x, y)
         IN <<m>> \o SortNames(S \ {m})

RECURSIVE SortIDsDescending(_)
SortIDsDescending(S) ==
    IF S = {} THEN <<>>
    ELSE LET m == CHOOSE x \in S : \A y \in S : x >= y
         IN <<m>> \o SortIDsDescending(S \ {m})

RECURSIVE SortIDs(_)
SortIDs(S) ==
    IF S = {} THEN <<>>
    ELSE LET m == CHOOSE x \in S : \A y \in S : x <= y
         IN <<m>> \o SortIDs(S \ {m})

Range(q) == {q[k] : k \in 1..Len(q)}

\* tstore.Databases(), sorted by sort.Strings.
databases == SortNames({store.owner[s] : s \in DOMAIN store.owner})

\* The series keys of the index of db, and its measurements, sorted.
IndexKeys(db) ==
    {key \in SeriesKeys : \E s \in DOMAIN store.owner :
        store.owner[s] = db /\ store.data[s][key] # <<>>}
measurements(db) == SortNames({MeasurementOf(key) : key \in IndexKeys(db)})
series(db, m) == SortNames({key \in IndexKeys(db) : MeasurementOf(key) = m})

\* tx.Cursor(key, tsdb.Forward): nil when the series is not in the shard.
CursorNil(s, key) == store.data[s][key] = <<>>

\* shard.FieldCodec(m.Name): nil when the shard has no fields of m.
CodecNil(s, m) == \A key \in SeriesKeys : MeasurementOf(key) = m => store.data[s][key] = <<>>

-----------------------------------------------------------------------------
(* dumpData *)

\* One line of output.  shard, n and db are history: the shard and cursor
\* position the line was made from, and the database whose block it is in.
Line(kind, key, fields, ts, s, n, db) ==
    [kind |-> kind, key |-> key, fields |-> fields, ts |-> ts,
     shard |-> s, n |-> n, db |-> db]
Header(kind, db) == Line(kind, <<>>, <<>>, 0, 0, 0, db)

\* fmt.Sprintf("%s:%T", field, value) and sort.Strings of these entries: the
\* field names of a map differ, here in their first character.
TypeOf(v) == IF v = "2.5" THEN "float64" ELSE "int64"
FieldTypes(fields) == {<<e[1], TypeOf(e[2])>> : e \in fields}
RECURSIVE SortStrings(_)
SortStrings(S) ==
    IF S = {} THEN <<>>
    ELSE LET m == CHOOSE x \in S : \A y \in S \ {x} : NameLess(<<x[1]>>, <<y[1]>>)
         IN <<m>> \o SortStrings(S \ {m})

\* The orders in which ranging over a map can enumerate its entries.
Orders(S) ==
    {q \in [1..Cardinality(S) -> S] : \A i, j \in 1..Cardinality(S) : q[i] = q[j] => i = j}

curDb == databases[dbIdx]
curM == measurements(curDb)[mIdx]
curShard == shardIDs[shIdx]
curKey == series(curDb, curM)[keyIdx]
curSeries == store.data[curShard][curKey]

\* cursor.Seek([]byte{}): the position of the first point.
SeekPastFirst(q) == 2
Seek(q) == 1

\* tstore.ShardIDs(), "# DML".
DumpBegin(ids) ==
    /\ dpc = "begin"
    /\ shardIDs' = ids
    /\ out' = Append(out, Header("dml", <<>>))
    /\ dbIdx' = 1
    /\ dpc' = "db"
    /\ UNCHANGED <<store, mIdx, shIdx, keyIdx, pos, txOpen, begun, rolled>>
    /\ UNCHANGED migVars

\* for _, db := range databases
DumpDatabase ==
    /\ dpc = "db"
    /\ IF dbIdx > Len(databases)
       THEN dpc' = "done" /\ UNCHANGED <<out, mIdx>>
       ELSE /\ out' = out \o <<Header("database", curDb), Header("rp", curDb)>>
            /\ mIdx' = 1
            /\ dpc' = "measurement"
    /\ UNCHANGED <<store, shardIDs, dbIdx, shIdx, keyIdx, pos, txOpen, begun, rolled>>
    /\ UNCHANGED migVars

\* for _, m := range measurements, up to sort.Sort(ShardIDs(shardIDs))
DumpMeasurement ==
    /\ dpc = "measurement"
    /\ IF mIdx > Len(measurements(curDb))
       THEN dbIdx' = dbIdx + 1 /\ dpc' = "db" /\ UNCHANGED <<shardIDs, shIdx>>
       ELSE /\ shardIDs' = SortIDs(Range(shardIDs))
            /\ shIdx' = 1
            /\ dpc' = "shard"
            /\ UNCHANGED dbIdx
    /\ UNCHANGED <<store, mIdx, keyIdx, pos, txOpen, begun, rolled, out>>
    /\ UNCHANGED migVars

\* for _, shardID := range shardIDs: shard.ReadOnlyTx()
DumpShard ==
    /\ dpc = "shard"
    /\ IF shIdx > Len(shardIDs)
       THEN mIdx' = mIdx + 1 /\ dpc' = "measurement" /\ UNCHANGED <<txOpen, begun, keyIdx>>
       ELSE /\ txOpen' = txOpen \cup {curShard}
            /\ begun' = begun + 1
            /\ keyIdx' = 1
            /\ dpc' = "key"
            /\ UNCHANGED mIdx
    /\ UNCHANGED <<store, shardIDs, dbIdx, shIdx, pos, rolled, out>>
    /\ UNCHANGED migVars

\* for _, key := range series: tx.Cursor, shard.FieldCodec, cursor.Seek;
\* after the last key tx.Rollback().
DumpKey ==
    /\ dpc = "key"
    /\ IF keyIdx > Len(series(curDb, curM))
       THEN /\ txOpen' = txOpen \ {curShard}
            /\ rolled' = rolled + 1
            /\ shIdx' = shIdx + 1
            /\ dpc' = "shard"
            /\ UNCHANGED <<keyIdx, pos>>
       ELSE IF CursorNil(curShard, curKey) \/ CodecNil(curShard, curM)
       THEN keyIdx' = keyIdx + 1 /\ UNCHANGED <<txOpen, rolled, shIdx, dpc, pos>>
       ELSE /\ pos' = Seek(curSeries)
            /\ dpc' = "point"
            /\ UNCHANGED <<txOpen, rolled, shIdx, keyIdx>>
    /\ UNCHANGED <<store, shardIDs, dbIdx, mIdx, begun, out>>
    /\ UNCHANGED migVars

\* One iteration of the loop over the cursor: value != nil, decode, print,
\* cursor.Next().
DumpPoint ==
    /\ dpc = "point"
    /\ IF pos > Len(curSeries)
       THEN keyIdx' = keyIdx + 1 /\ dpc' = "key" /\ UNCHANGED <<out, pos>>
       ELSE /\ \E fieldSummary \in Orders(DecodeFieldsWithNames(curSeries[pos].value)) :
                 out' = Append(out, Line("point", curKey, fieldSummary,
                                         ToInt64(btou64(curSeries[pos].ts)),
                                         curShard, pos, curDb))
            /\ pos' = pos + 1
            /\ UNCHANGED <<keyIdx, dpc>>
    /\ UNCHANGED <<store, shardIDs, dbIdx, mIdx, shIdx, txOpen, begun, rolled>>
    /\ UNCHANGED migVars

-----------------------------------------------------------------------------
(* main of the inspection tool: the summary table, then dumpData *)

\* "# Shards: ...", "#", the column titles, tstore.ShardIDs().
SummaryBegin(ids) ==
    /\ dpc = "summary"
    /\ shardIDs' = ids
    /\ out' = Append(out, Header("titles", <<>>))
    /\ dbIdx' = 1
    /\ dpc' = "sdb"
    /\ UNCHANGED <<store, mIdx, shIdx, keyIdx, pos, txOpen, begun, rolled>>
    /\ UNCHANGED migVars

\* for _, db := range databases; after the last one tw.Flush() and the call
\* of dumpData.
SummaryDatabase ==
    /\ dpc = "sdb"
    /\ IF dbIdx > Len(databases)
       THEN dpc' = "begin" /\ UNCHANGED mIdx
       ELSE mIdx' = 1 /\ dpc' = "smeasurement"
    /\ UNCHANGED <<store, shardIDs, dbIdx, shIdx, keyIdx, pos, txOpen, begun, rolled,
                   out>>
    /\ UNCHANGED migVars

\* for _, m := range measurements, up to sort.Sort(ShardIDs(shardIDs))
SummaryMeasurement ==
    /\ dpc = "smeasurement"
    /\ IF mIdx > Len(measurements(curDb))
       THEN dbIdx' = dbIdx + 1 /\ dpc' = "sdb" /\ UNCHANGED <<shardIDs, shIdx>>
       ELSE /\ shardIDs' = SortIDs(Range(shardIDs))
            /\ shIdx' = 1
            /\ dpc' = "sshard"
            /\ UNCHANGED dbIdx
    /\ UNCHANGED <<store, mIdx, keyIdx, pos, txOpen, begun, rolled, out>>
    /\ UNCHANGED migVars

\* for _, shardID := range shardIDs: shard.ReadOnlyTx()
SummaryShard ==
    /\ dpc = "sshard"
    /\ IF shIdx > Len(shardIDs)
       THEN mIdx' = mIdx + 1 /\ dpc' = "smeasurement" /\ UNCHANGED <<txOpen, begun, keyIdx>>
       ELSE /\ txOpen' = txOpen \cup {curShard}
            /\ begun' = begun + 1
            /\ keyIdx' = 1
            /\ dpc' = "skey"
            /\ UNCHANGED mIdx
    /\ UNCHANGED <<store, shardIDs, dbIdx, shIdx, pos, rolled, out>>
    /\ UNCHANGED migVars

\* The row of the table made from the first point of curKey in curShard.
Row(fieldSummary) ==
    Line("row", curKey, fieldSummary, 0, curShard, Seek(curSeries), curDb)
SampledTypes ==
    IF CodecNil(curShard, curM) THEN <<>>
    ELSE SortStrings(FieldTypes(DecodeFieldsWithNames(curSeries[Seek(curSeries)].value)))

\* for _, key := range series: a nil cursor continues with the next key; the
\* first cursor that is not nil gives the row and breaks; tx.Rollback()
\* follows the loop.
SummaryKeyNoBreak ==
    /\ dpc = "skey"
    /\ IF keyIdx > Len(series(curDb, curM))
       THEN /\ txOpen' = txOpen \ {curShard}
            /\ rolled' = rolled + 1
            /\ shIdx' = shIdx + 1
            /\ dpc' = "sshard"
            /\ UNCHANGED <<keyIdx, out>>
       ELSE /\ keyIdx' = keyIdx + 1
            /\ IF CursorNil(curShard, curKey) THEN UNCHANGED out
               ELSE out' = Append(out, Row(SampledTypes))
            /\ UNCHANGED <<txOpen, rolled, shIdx, dpc>>
    /\ UNCHANGED <<store, shardIDs, dbIdx, mIdx, pos, begun>>
    /\ UNCHANGED migVars
SummaryKeyBreakPastRollback ==
    /\ dpc = "skey"
    /\ IF keyIdx > Len(series(curDb, curM))
       THEN /\ txOpen' = txOpen \ {curShard}
            /\ rolled' = rolled + 1
            /\ shIdx' = shIdx + 1
            /\ dpc' = "sshard"
            /\ UNCHANGED <<keyIdx, out>>
       ELSE IF CursorNil(curShard, curKey)
       THEN keyIdx' = keyIdx + 1 /\ UNCHANGED <<txOpen, rolled, shIdx, dpc, out>>
       ELSE /\ out' = Append(out, Row(SampledTypes))
            /\ shIdx' = shIdx + 1
            /\ dpc' = "sshard"
            /\ UNCHANGED <<txOpen, rolled, keyIdx>>
    /\ UNCHANGED <<store, shardIDs, dbIdx, mIdx, pos, begun>>
    /\ UNCHANGED migVars
SummaryKey ==
    /\ dpc = "skey"
    /\ IF keyIdx > Len(series(curDb, curM))
       THEN /\ txOpen' = txOpen \ {curShard}
            /\ rolled' = rolled + 1
            /\ shIdx' = shIdx + 1
            /\ dpc' = "sshard"
            /\ UNCHANGED <<keyIdx, out>>
       ELSE IF CursorNil(curShard, curKey)
       THEN keyIdx' = keyIdx + 1 /\ UNCHANGED <<txOpen, rolled, shIdx, dpc, out>>
       ELSE /\ out' = Append(out, Row(SampledTypes))
            /\ txOpen' = txOpen \ {curShard}
            /\ rolled' = rolled + 1
            /\ shIdx' = shIdx + 1
            /\ dpc' = "sshard"
            /\ UNCHANGED keyIdx
    /\ UNCHANGED <<store, shardIDs, dbIdx, mIdx, pos, begun>>
    /\ UNCHANGED migVars

\* The migration tool is not running.
MigIdle ==
    /\ disk = [d \in DirNames |-> NoDir]
    /\ pc = "off"
    /\ shards = <<>>
    /\ idx = 0
    /\ toBackup = {}
    /\ parallel = FALSE
    /\ start = disk
    /\ stage = <<>>
    /\ failedAt = ""
    /\ backedUp = {}
    /\ reply = <<>>
    /\ calls = <<>>
    /\ ds = << <<>> >>
    /\ runs = 0
    /\ stale = {}

InitDump ==
    /\ MigIdle
    /\ store \in Stores
    /\ dpc = "begin"
    /\ shardIDs = <<>>
    /\ dbIdx = 0 /\ mIdx = 0 /\ shIdx = 0 /\ keyIdx = 0 /\ pos = 0
    /\ txOpen = {}
    /\ begun = 0 /\ rolled = 0
    /\ out = <<>>

NextDump ==
    \/ \E ids \in Orders(StoreShardIds) : DumpBegin(ids)
    \/ DumpDatabase
    \/ DumpMeasurement
    \/ DumpShard
    \/ DumpKey
    \/ DumpPoint

SpecDump == InitDump /\ [][NextDump]_vars

InitInspect ==
    /\ MigIdle
    /\ store \in Stores
    /\ dpc = "summary"
    /\ shardIDs = <<>>
    /\ dbIdx = 0 /\ mIdx = 0 /\ shIdx = 0 /\ keyIdx = 0 /\ pos = 0
    /\ txOpen = {}
    /\ begun = 0 /\ rolled = 0
    /\ out = <<>>

NextInspect ==
    \/ \E ids \in Orders(StoreShardIds) : SummaryBegin(ids)
    \/ SummaryDatabase
    \/ SummaryMeasurement
    \/ SummaryShard
    \/ SummaryKey
    \/ NextDump

SpecInspect == InitInspect /\ [][NextInspect]_vars

-----------------------------------------------------------------------------
(* Properties of dumpData *)

RECURSIVE Select(_, _, _, _)
Select(lines, db, s, key) ==
    IF lines = <<>> THEN <<>>
    ELSE IF Head(lines).kind = "point" /\ Head(lines).db = db
            /\ Head(lines).shard = s /\ Head(lines).key = key
         THEN <<Head(lines)>> \o Select(Tail(lines), db, s, key)
         ELSE Select(Tail(lines), db, s, key)

\* The scan of series key in shard s within the block of db is over.
Scanned(db, s, key) ==
    \/ dpc = "done"
    \/ /\ dpc \in {"key", "point"} /\ curDb = db /\ curShard = s
       /\ \E k \in 1..(keyIdx - 1) : series(curDb, curM)[k] = key

-----------------------------------------------------------------------------
(* Properties of the inspection tool *)

Lines == 1..Len(out)
IsPoint(i) == out[i].kind = "point"
IsRow(i) == out[i].kind = "row"
InSummary == dpc \in {"summary", "sdb", "smeasurement", "sshard", "skey"}
Holders(key) == {s \in StoreShardIds : ~CursorNil(s, key)}
Least(S) == CHOOSE x \in S : \A y \in S : x <= y
LeastKey(S) == CHOOSE x \in S : \A y \in S \ {x} : NameLess(x, y)

\* x is written before y when series are the outer loop and shards the inner.
SeriesThenShard(x, y) ==
    \/ NameLess(x.db, y.db)
    \/ /\ x.db = y.db
       /\ \/ NameLess(MeasurementOf(x.key), MeasurementOf(y.key))
          \/ /\ MeasurementOf(x.key) = MeasurementOf(y.key)
             /\ \/ NameLess(x.key, y.key)
                \/ x.key = y.key /\ x.shard < y.shard
                \/ x.key = y.key /\ x.shard = y.shard /\ x.n < y.n

\* x is written before y when shards are the outer loop and series the inner.
ShardThenSeries(x, y) ==
    \/ NameLess(x.db, y.db)
    \/ /\ x.db = y.db
       /\ \/ NameLess(MeasurementOf(x.key), MeasurementOf(y.key))
          \/ /\ MeasurementOf(x.key) = MeasurementOf(y.key)
             /\ \/ x.shard < y.shard
                \/ x.shard = y.shard /\ NameLess(x.key, y.key)
                \/ x.shard = y.shard /\ x.key = y.key /\ x.n < y.n

\* C11 as stated: the point lines of the dump are in the order database,
\* measurement, series key, shard ID: within a measurement every line of one
\* series key, from all shards, precedes every line of the next series key.
C11_SeriesThenShard ==
    \A i, j \in Lines : (i < j /\ IsPoint(i) /\ IsPoint(j)) => SeriesThenShard(out[i], out[j])

\* C11 amended: the point lines of the dump are in the order database,
\* measurement, shard ID ascending, series key, cursor position: within a
\* measurement every line of one shard, for all series keys, precedes every
\* line of the next shard, and the lines of one series key are in ascending
\* shard order.
C11_ShardThenSeries ==
    \A i, j \in Lines : (i < j /\ IsPoint(i) /\ IsPoint(j)) => ShardThenSeries(out[i], out[j])

\* A finished dump with a line of a later series key from the first shard
\* before a line of an earlier series key, same database and measurement,
\* from the second shard.
C11_Witness ==
    /\ dpc = "done"
    /\ \E i, j \in Lines :
          /\ i < j /\ IsPoint(i) /\ IsPoint(j)
          /\ out[i].db = out[j].db
          /\ MeasurementOf(out[i].key) = MeasurementOf(out[j].key)
          /\ out[i].shard < out[j].shard
          /\ NameLess(out[j].key, out[i].key)

RowsOfSeries(db, key) == {i \in Lines : IsRow(i) /\ out[i].db = db /\ out[i].key = key}
RowsOfShard(db, m, s) ==
    {i \in Lines : IsRow(i) /\ out[i].db = db /\ MeasurementOf(out[i].key) = m
                   /\ out[i].shard = s}

\* C12 as stated: the finished summary has exactly one row for each series
\* key of each database, made from the lowest shard that has a cursor for it.
C12_OneRowPerSeries ==
    ~InSummary =>
        \A db \in Range(databases) : \A key \in IndexKeys(db) :
            /\ Cardinality(RowsOfSeries(db, key)) = 1
            /\ \A i \in RowsOfSeries(db, key) : out[i].shard = Least(Holders(key))

\* C12 amended: the finished summary has, for each measurement of each
\* database and each shard of the store, one row if the shard has a cursor
\* for at least one series key of the measurement and no row otherwise; the
\* row carries the shard's ID and is made from the first point of the least
\* such key, with its field types sorted (none when the point cannot be
\* decoded); rows are in the order database, measurement, shard ID.
C12_OneRowPerShard ==
    /\ ~InSummary =>
          \A db \in Range(databases) : \A m \in Range(measurements(db)) :
             \A s \in StoreShardIds :
                LET present == {key \in Range(series(db, m)) : ~CursorNil(s, key)}
                    rows == RowsOfShard(db, m, s)
                IN IF present = {} THEN rows = {}
                   ELSE /\ Cardinality(rows) = 1
                        /\ \A i \in rows :
                              /\ out[i].key = LeastKey(present)
                              /\ out[i].n = 1
                              /\ out[i].fields =
                                    SortStrings(FieldTypes(DecodeFieldsWithNames(
                                        store.data[s][out[i].key][1].value)))
    /\ \A i, j \in Lines : (i < j /\ IsRow(i) /\ IsRow(j)) =>
          \/ NameLess(out[i].db, out[j].db)
          \/ /\ out[i].db = out[j].db
             /\ \/ NameLess(MeasurementOf(out[i].key), MeasurementOf(out[j].key))
                \/ /\ MeasurementOf(out[i].key) = MeasurementOf(out[j].key)
                   /\ out[i].shard < out[j].shard

\* A finished summary with two rows for one series key of one database, from
\* two shards, and no row for another series key of that database.
C12_Witness ==
    /\ ~InSummary
    /\ \E db \in Range(databases) :
          /\ \E key \in IndexKeys(db) : Cardinality(RowsOfSeries(db, key)) = 2
          /\ \E key \in IndexKeys(db) : RowsOfSeries(db, key) = {}

\* C13: at most one transaction is open at any time, it is the one of the
\* shard being scanned, every ReadOnlyTx is matched by one Rollback when the
\* scan of the shard's series ends, and no transaction is open between shard
\* scans or after the traversal.
C13_OneTxRolledBackOnce ==
    /\ Cardinality(txOpen) <= 1
    /\ begun - rolled = Cardinality(txOpen)
    /\ dpc \in {"skey", "key", "point"} => txOpen = {curShard}
    /\ dpc \notin {"skey", "key", "point"} => txOpen = {}

\* A finished inspection whose summary scan left a shard early with a row,
\* after more than two transactions.
C13_Witness ==
    /\ dpc = "done"
    /\ begun > 2 /\ begun = rolled
    /\ \E i \in Lines : IsRow(i)
    /\ \E s \in StoreShardIds, key \in SeriesKeys : CursorNil(s, key)

\* C14: no row of the summary and no line of the dump is made from a point
\* whose value the codec fails to decode.
C14_UndecodableSkipped ==
    \A i \in Lines : (IsPoint(i) \/ IsRow(i)) =>
        ~DecodeErr(store.data[out[i].shard][out[i].key][out[i].n].value)

\* C15: the line written for a point is the same whichever order the decoded
\* map is enumerated in.
C15_SameLineWhateverOrder ==
    [][(dpc = "point" /\ pos <= Len(curSeries)) =>
          \A q \in Orders(DecodeFieldsWithNames(curSeries[pos].value)) :
              out' = Append(out, Line("point", curKey, q,
                                      ToInt64(btou64(curSeries[pos].ts)),
                                      curShard, pos, curDb))]_vars

\* C18: every point line in the block of a database comes from a shard owned
\* by that database, and a finished dump has exactly one line for each
\* stored point.
C18_OwnShardsOnlyOnce ==
    /\ \A i \in Lines : IsPoint(i) => store.owner[out[i].shard] = out[i].db
    /\ dpc = "done" =>
          \A s \in StoreShardIds, key \in SeriesKeys :
             \A n \in 1..Len(store.data[s][key]) :
                Cardinality({i \in Lines : /\ IsPoint(i) /\ out[i].shard = s
                                           /\ out[i].key = key /\ out[i].n = n}) = 1

====
